---- MODULE Spec2Model ----
(***************************************************************************)
(* Model of src/main.py, the SQLite-backed "Musical Collaboration App".    *)
(*                                                                         *)
(* The database is the shared state: tables users, rounds, compositions.   *)
(* Every request handler runs on its own connection (get_db) and FastAPI   *)
(* runs plain `def` handlers on a thread pool, so handlers overlap.  The   *)
(* sqlite3 module opens a transaction only in front of INSERT/UPDATE;      *)
(* each SELECT runs on its own in autocommit mode.  A handler is therefore *)
(* modelled as a chain of steps, one per SELECT and one per                *)
(* write-statement-plus-commit (a write transaction is invisible to other  *)
(* connections until its commit, so statement and commit are one step).    *)
(*                                                                         *)
(* Spec    lets the steps of different requests interleave freely.         *)
(* SeqSpec serves one request at a time (a request starts only when no     *)
(*         other request is in flight).                                    *)
(*                                                                         *)
(* resp records the exchange completed last: the request (op and its       *)
(* arguments) together with the response the client received.              *)
(*                                                                         *)
(* Not modelled: the DATETIME columns (start_time, end_time, timestamp)    *)
(* and rounds.seed_composition_id, which no handler ever reads back, and   *)
(* SQLITE_BUSY lock time-outs.                                             *)
(***************************************************************************)
EXTENDS Integers, Sequences, FiniteSets, TLC

\* ---------------------------------------------------------------- bounds
MaxRounds == 2       \* rounds the clients ask for
MaxComps == 2        \* compositions the clients upload
MaxVotes == 3        \* votes the clients cast on one composition

\* Two request slots: each race of the handlers is between two requests.
Procs == {1, 2}
Usernames == {"alice", "bob"}
Contents == {"la la la"}
VoteIds == 1..(MaxComps + 1)

VARIABLES
    users,          \* table users:        id -> username
    rounds,         \* table rounds:       the rows' `number`, as inserted
    compositions,   \* table compositions: id -> row
    pc,             \* per request slot: the statement it executes next
    req,            \* per request slot: the request in flight and its locals
    resp,           \* the exchange completed last: request and response
    okVotes         \* history: per composition id, the votes answered 200

vars == <<users, rounds, compositions, pc, req, resp, okVotes>>

\* ------------------------------------------------------------ SQL helpers
Max(S) == CHOOSE m \in S : \A x \in S : x <= m
Min(S) == CHOOSE m \in S : \A x \in S : m <= x

\* Mutant: the new rowid is the largest rowid of the table, not one more.
NewRowid_Reuse(table) == IF DOMAIN table = {} THEN 1 ELSE Max(DOMAIN table)

\* INTEGER PRIMARY KEY without AUTOINCREMENT: the new rowid is the largest
\* rowid of the table plus one, 1 for an empty table.
NewRowid(table) == IF DOMAIN table = {} THEN 1 ELSE Max(DOMAIN table) + 1

\* Mutant: the username column is not declared UNIQUE.
UsernameTaken_NotUnique(username) == FALSE

\* username TEXT UNIQUE: the INSERT raises IntegrityError on a duplicate.
UsernameTaken(username) == \E i \in DOMAIN users : users[i] = username

\* SELECT id FROM users WHERE username = ?   (fetchone; 0 stands for None)
SelectUserId(username) ==
    IF \E i \in DOMAIN users : users[i] = username
    THEN CHOOSE i \in DOMAIN users : users[i] = username
    ELSE 0

\* The values of column `number` of table rounds.
RoundNumbers == {rounds[i] : i \in DOMAIN rounds}

\* Mutant: the default of COALESCE is off by one.
NextRoundNumber_DefaultOne ==
    (IF rounds = <<>> THEN 1 ELSE Max(RoundNumbers)) + 1

\* SELECT COALESCE(MAX(number), 0) + 1 FROM rounds
NextRoundNumber == (IF rounds = <<>> THEN 0 ELSE Max(RoundNumbers)) + 1

\* Mutant: column number is not declared PRIMARY KEY.
RoundNumberTaken_NoKey(number) == FALSE

\* number INTEGER PRIMARY KEY: the INSERT raises IntegrityError on a duplicate.
RoundNumberTaken(number) == number \in RoundNumbers

\* Mutant: ORDER BY number ASC, the oldest round.
SelectCurrentRound_Asc == IF rounds = <<>> THEN 0 ELSE Min(RoundNumbers)

\* SELECT number FROM rounds ORDER BY number DESC LIMIT 1   (0 stands for None)
SelectCurrentRound == IF rounds = <<>> THEN 0 ELSE Max(RoundNumbers)

\* SELECT * FROM compositions WHERE id = ?   (fetchone is not None)
CompositionExists(composition_id) == composition_id \in DOMAIN compositions

\* INSERT INTO compositions (user_id, content, round_number, timestamp, votes)
\* VALUES (?, ?, ?, ?, 0)
NewComposition(user_id, content, round_number) ==
    [user_id |-> user_id, content |-> content,
     round_number |-> round_number, votes |-> 0]

\* Mutant: the UPDATE subtracts.
UpdateVotes_Minus(composition_id) ==
    [c \in DOMAIN compositions |->
        IF c = composition_id
        THEN [compositions[c] EXCEPT !.votes = @ - 1]
        ELSE compositions[c]]

\* Mutant: the UPDATE has no WHERE clause.
UpdateVotes_NoWhere(composition_id) ==
    [c \in DOMAIN compositions |-> [compositions[c] EXCEPT !.votes = @ + 1]]

\* UPDATE compositions SET votes = votes + 1 WHERE id = ?
UpdateVotes(composition_id) ==
    [c \in DOMAIN compositions |->
        IF c = composition_id
        THEN [compositions[c] EXCEPT !.votes = @ + 1]
        ELSE compositions[c]]

\* SELECT votes FROM compositions WHERE id = ?   (fetchone()[0])
SelectVotes(composition_id) == compositions[composition_id].votes

RECURSIVE Ascending(_)
Ascending(S) ==
    IF S = {} THEN <<>> ELSE <<Min(S)>> \o Ascending(S \ {Min(S)})

\* Mutant: the join is driven by table users (users scanned in rowid order,
\* the compositions of each user after one another).
SelectRoundRows_UsersOuter(round_number) ==
    LET Of(u) == Ascending({c \in DOMAIN compositions :
                      /\ compositions[c].round_number = round_number
                      /\ compositions[c].user_id = u})
        F[k \in 0..Len(Ascending(DOMAIN users))] ==
            IF k = 0 THEN <<>>
            ELSE F[k - 1] \o Of(Ascending(DOMAIN users)[k])
        ids == F[Len(Ascending(DOMAIN users))]
    IN [i \in 1..Len(ids) |->
            [id |-> ids[i],
             username |-> users[compositions[ids[i]].user_id],
             content |-> compositions[ids[i]].content,
             votes |-> compositions[ids[i]].votes]]

\* Mutant: the SELECT has no WHERE c.round_number = ? clause.
SelectRoundRows_AllRounds(round_number) ==
    LET ids == Ascending({c \in DOMAIN compositions :
                    compositions[c].user_id \in DOMAIN users})
    IN [i \in 1..Len(ids) |->
            [id |-> ids[i],
             username |-> users[compositions[ids[i]].user_id],
             content |-> compositions[ids[i]].content,
             votes |-> compositions[ids[i]].votes]]

\* SELECT c.id, u.username, c.content, c.votes FROM compositions c
\* JOIN users u ON c.user_id = u.id WHERE c.round_number = ?
\* (compositions is scanned in rowid order, users is probed by primary key)
SelectRoundRows(round_number) ==
    LET ids == Ascending({c \in DOMAIN compositions :
                    /\ compositions[c].round_number = round_number
                    /\ compositions[c].user_id \in DOMAIN users})
    IN [i \in 1..Len(ids) |->
            [id |-> ids[i],
             username |-> users[compositions[ids[i]].user_id],
             content |-> compositions[ids[i]].content,
             votes |-> compositions[ids[i]].votes]]

\* ------------------------------------------------- requests and responses
NoReq == [op |-> "none", username |-> "", content |-> "", composition_id |-> 0,
          user_id |-> 0, round_number |-> 0]

NoResp == [op |-> "none", username |-> "", composition_id |-> 0,
           status |-> 0, detail |-> "", user_id |-> 0,
           round_number |-> 0, votes |-> 0, rows |-> <<>>]

\* A handler's return value, answered with status 200.
Ok(r) == [NoResp EXCEPT !.op = r.op, !.username = r.username,
                        !.composition_id = r.composition_id, !.status = 200]

\* raise HTTPException(status_code, detail); an exception no handler catches
\* is answered by the framework with status 500.
HTTPException(r, status_code, detail) ==
    [NoResp EXCEPT !.op = r.op, !.username = r.username,
                   !.composition_id = r.composition_id,
                   !.status = status_code, !.detail = detail]

InFlight(labels) == Cardinality({q \in Procs : pc[q] \in labels})

\* The request is answered at once: the slot stays idle.
Answer(p, r) ==
    /\ pc[p] = "idle"
    /\ resp' = r
    /\ UNCHANGED <<pc, req>>

\* The request is accepted and its handler goes on at `label`.
Goto(p, r, label) ==
    /\ req' = [req EXCEPT ![p] = r]
    /\ pc' = [pc EXCEPT ![p] = label]
    /\ resp' = resp

\* The handler returns (or raises): the slot is idle again.
Return(p, r) ==
    /\ resp' = r
    /\ pc' = [pc EXCEPT ![p] = "idle"]
    /\ req' = [req EXCEPT ![p] = NoReq]

Init ==
    /\ users = <<>>
    /\ rounds = <<>>
    /\ compositions = <<>>
    /\ pc = [p \in Procs |-> "idle"]
    /\ req = [p \in Procs |-> NoReq]
    /\ resp = NoResp
    /\ okVotes = <<>>

\* ------------------------------------------------ POST /users/create
create_user(p, username) ==
    LET r == [NoReq EXCEPT !.op = "create_user", !.username = username] IN
    /\ IF UsernameTaken(username)
       THEN /\ Answer(p, HTTPException(r, 400, "Username already exists"))
            /\ users' = users
       ELSE /\ users' = [i \in DOMAIN users \cup {NewRowid(users)} |->
                            IF i \in DOMAIN users THEN users[i] ELSE username]
            /\ Answer(p, [Ok(r) EXCEPT !.user_id = NewRowid(users)])
    /\ UNCHANGED <<rounds, compositions, okVotes>>

\* ------------------------------------------------ POST /rounds/start
start_new_round_select(p) ==
    /\ pc[p] = "idle"
    /\ Len(rounds) + InFlight({"start_new_round_insert"}) < MaxRounds
    /\ Goto(p, [NoReq EXCEPT !.op = "start_new_round",
                             !.round_number = NextRoundNumber],
            "start_new_round_insert")
    /\ UNCHANGED <<users, rounds, compositions, okVotes>>

start_new_round_insert(p) ==
    /\ pc[p] = "start_new_round_insert"
    /\ IF RoundNumberTaken(req[p].round_number)
       THEN \* sqlite3.IntegrityError, which the handler does not catch
            /\ Return(p, HTTPException(req[p], 500, "Internal Server Error"))
            /\ rounds' = rounds
       ELSE /\ rounds' = Append(rounds, req[p].round_number)
            /\ Return(p, [Ok(req[p]) EXCEPT
                              !.round_number = req[p].round_number])
    /\ UNCHANGED <<users, compositions, okVotes>>

\* Mutant: the handler does not test user_result.
upload_composition_user_NoUserCheck(p, username, content) ==
    /\ pc[p] = "idle"
    /\ Cardinality(DOMAIN compositions)
          + InFlight({"upload_composition_round", "upload_composition_insert"})
          < MaxComps
    /\ Goto(p, [NoReq EXCEPT !.op = "upload_composition",
                             !.username = username, !.content = content,
                             !.user_id = SelectUserId(username)],
            "upload_composition_round")
    /\ UNCHANGED <<users, rounds, compositions, okVotes>>

\* Mutant: an upload that finds no round starts round 1 itself.
upload_composition_round_AutoStart(p) ==
    /\ pc[p] = "upload_composition_round"
    /\ rounds' = IF rounds = <<>> THEN <<1>> ELSE rounds
    /\ Goto(p, [req[p] EXCEPT !.round_number =
                    IF rounds = <<>> THEN 1 ELSE SelectCurrentRound],
            "upload_composition_insert")
    /\ UNCHANGED <<users, compositions, okVotes>>

\* Mutant: the handler does not test current_round.
upload_composition_round_NoRoundCheck(p) ==
    /\ pc[p] = "upload_composition_round"
    /\ Goto(p, [req[p] EXCEPT !.round_number = SelectCurrentRound],
            "upload_composition_insert")
    /\ UNCHANGED <<users, rounds, compositions, okVotes>>

\* ------------------------------------------------ POST /compositions/upload
upload_composition_user(p, username, content) ==
    LET r == [NoReq EXCEPT !.op = "upload_composition",
                           !.username = username, !.content = content,
                           !.user_id = SelectUserId(username)] IN
    /\ pc[p] = "idle"
    /\ Cardinality(DOMAIN compositions)
          + InFlight({"upload_composition_round", "upload_composition_insert"})
          < MaxComps
    /\ IF r.user_id = 0
       THEN Answer(p, HTTPException(r, 404, "User not found"))
       ELSE Goto(p, r, "upload_composition_round")
    /\ UNCHANGED <<users, rounds, compositions, okVotes>>

upload_composition_round(p) ==
    /\ pc[p] = "upload_composition_round"
    /\ IF SelectCurrentRound = 0
       THEN Return(p, HTTPException(req[p], 400, "No active round"))
       ELSE Goto(p, [req[p] EXCEPT !.round_number = SelectCurrentRound],
                 "upload_composition_insert")
    /\ UNCHANGED <<users, rounds, compositions, okVotes>>

upload_composition_insert(p) ==
    /\ pc[p] = "upload_composition_insert"
    /\ compositions' =
          [c \in DOMAIN compositions \cup {NewRowid(compositions)} |->
              IF c \in DOMAIN compositions
              THEN compositions[c]
              ELSE NewComposition(req[p].user_id, req[p].content,
                                  req[p].round_number)]
    /\ okVotes' = [c \in DOMAIN okVotes \cup {NewRowid(compositions)} |->
                      IF c \in DOMAIN okVotes THEN okVotes[c] ELSE 0]
    /\ Return(p, [Ok(req[p]) EXCEPT
                      !.composition_id = NewRowid(compositions),
                      !.round_number = req[p].round_number])
    /\ UNCHANGED <<users, rounds>>

\* ------------------------------------------------ POST /compositions/vote
vote_composition_check(p, composition_id) ==
    LET r == [NoReq EXCEPT !.op = "vote_composition",
                           !.composition_id = composition_id] IN
    /\ pc[p] = "idle"
    /\ CompositionExists(composition_id) =>
          compositions[composition_id].votes
             + Cardinality({q \in Procs :
                    /\ pc[q] = "vote_composition_update"
                    /\ req[q].composition_id = composition_id})
             < MaxVotes
    /\ IF ~CompositionExists(composition_id)
       THEN Answer(p, HTTPException(r, 404, "Composition not found"))
       ELSE Goto(p, r, "vote_composition_update")
    /\ UNCHANGED <<users, rounds, compositions, okVotes>>

\* Mutant: the counter is read, incremented in the handler and written back;
\* the write of a vote that overlaps a vote just committed adds nothing.
vote_composition_update_LostUpdate(p) ==
    /\ pc[p] = "vote_composition_update"
    /\ compositions' =
          IF \E q \in Procs \ {p} :
                /\ pc[q] = "vote_composition_fetch"
                /\ req[q].composition_id = req[p].composition_id
          THEN compositions
          ELSE UpdateVotes(req[p].composition_id)
    /\ Goto(p, req[p], "vote_composition_fetch")
    /\ UNCHANGED <<users, rounds, okVotes>>

vote_composition_update(p) ==
    /\ pc[p] = "vote_composition_update"
    /\ compositions' = UpdateVotes(req[p].composition_id)
    /\ Goto(p, req[p], "vote_composition_fetch")
    /\ UNCHANGED <<users, rounds, okVotes>>

vote_composition_fetch(p) ==
    /\ pc[p] = "vote_composition_fetch"
    /\ Return(p, [Ok(req[p]) EXCEPT
                      !.votes = SelectVotes(req[p].composition_id)])
    /\ okVotes' = [okVotes EXCEPT ![req[p].composition_id] = @ + 1]
    /\ UNCHANGED <<users, rounds, compositions>>

\* ------------------------------------------------ GET /rounds/current
get_current_round_select(p) ==
    LET r == [NoReq EXCEPT !.op = "get_current_round",
                           !.round_number = SelectCurrentRound] IN
    /\ pc[p] = "idle"
    /\ IF r.round_number = 0
       THEN Answer(p, HTTPException(r, 404, "No active round"))
       ELSE Goto(p, r, "get_current_round_rows")
    /\ UNCHANGED <<users, rounds, compositions, okVotes>>

get_current_round_rows(p) ==
    /\ pc[p] = "get_current_round_rows"
    /\ Return(p, [Ok(req[p]) EXCEPT
                      !.rows = SelectRoundRows(req[p].round_number)])
    /\ UNCHANGED <<users, rounds, compositions, okVotes>>

\* ------------------------------------------------------- specifications
Step(p) ==
    \/ \E username \in Usernames : create_user(p, username)
    \/ start_new_round_select(p)
    \/ start_new_round_insert(p)
    \/ \E username \in Usernames, content \in Contents :
          upload_composition_user(p, username, content)
    \/ upload_composition_round(p)
    \/ upload_composition_insert(p)
    \/ \E composition_id \in VoteIds : vote_composition_check(p, composition_id)
    \/ vote_composition_update(p)
    \/ vote_composition_fetch(p)
    \/ get_current_round_select(p)
    \/ get_current_round_rows(p)

\* Requests arrive independently and their statements interleave.
Next == \E p \in Procs : Step(p)

Spec == Init /\ [][Next]_vars

\* One request at a time: a slot moves only while every other slot is idle.
Quiet(p) == \A q \in Procs \ {p} : pc[q] = "idle"

SeqNext ==
    \E p \in Procs :
        \/ \E username \in Usernames : Quiet(p) /\ create_user(p, username)
        \/ Quiet(p) /\ start_new_round_select(p)
        \/ Quiet(p) /\ start_new_round_insert(p)
        \/ \E username \in Usernames, content \in Contents :
              Quiet(p) /\ upload_composition_user(p, username, content)
        \/ Quiet(p) /\ upload_composition_round(p)
        \/ Quiet(p) /\ upload_composition_insert(p)
        \/ \E composition_id \in VoteIds :
              Quiet(p) /\ vote_composition_check(p, composition_id)
        \/ Quiet(p) /\ vote_composition_update(p)
        \/ Quiet(p) /\ vote_composition_fetch(p)
        \/ Quiet(p) /\ get_current_round_select(p)
        \/ Quiet(p) /\ get_current_round_rows(p)

SeqSpec == Init /\ [][SeqNext]_vars

\* ---------------------------------------------------------------- claims
AllIdle == \A p \in Procs : pc[p] = "idle"

Roster(table) == {table[i] : i \in DOMAIN table}

CurrentRoundIds ==
    {c \in DOMAIN compositions : compositions[c].round_number = Max(RoundNumbers)}

\* C1: a vote succeeds only on a composition of the current (highest-numbered)
\* round; a vote on an id that does not exist or that belongs to an earlier
\* round is answered 404.  (The handler looks the id up in the whole table.)
C1_VoteOnlyInCurrentRound ==
    (/\ resp.op = "vote_composition"
     /\ rounds # <<>>
     /\ resp.composition_id \notin CurrentRoundIds) =>
        resp.status = 404

\* C2: once a vote is answered, the answer carries the stored counter of the
\* composition voted on, and every composition's stored counter is the number
\* of votes answered 200 for it: each successful vote raised its target by
\* exactly 1 and no other counter, N votes in sequence make N.
C2_VoteCountsExactly ==
    AllIdle =>
        /\ \A c \in DOMAIN compositions : compositions[c].votes = okVotes[c]
        /\ (resp.op = "vote_composition" /\ resp.status = 200) =>
              /\ resp.votes = compositions[resp.composition_id].votes
              /\ resp.votes = okVotes[resp.composition_id]

\* C2 witness: alice's only composition, voted MaxVotes times in sequence, is
\* listed by GetCurrentRound with votes = MaxVotes.
C2_Witness ==
    /\ AllIdle
    /\ resp.op = "get_current_round"
    /\ resp.status = 200
    /\ Len(resp.rows) = 1
    /\ resp.rows[1].username = "alice"
    /\ resp.rows[1].votes = MaxVotes
    /\ okVotes[resp.rows[1].id] = MaxVotes

\* C3: served one at a time, the k-th StartRound is answered 200 with round
\* number k, the rounds are then exactly 1..k and k is the current round.
C3_RoundsNumberedInSequence ==
    /\ rounds = [i \in 1..Len(rounds) |-> i]
    /\ resp.op = "start_new_round" =>
          /\ resp.status = 200
          /\ resp.round_number = Len(rounds)
          /\ resp.round_number = SelectCurrentRound

C3_Witness ==
    /\ resp.op = "start_new_round"
    /\ resp.round_number = MaxRounds
    /\ RoundNumbers = 1..MaxRounds

\* C4: RegisterUser of a username in the roster is answered 400 and leaves the
\* roster as it is; any other RegisterUser is answered 200 and adds one row,
\* holding exactly that username.
C4_RegisterUser ==
    [][\A p \in Procs, username \in Usernames :
          create_user(p, username) =>
              IF username \in Roster(users)
              THEN /\ resp'.status = 400
                   /\ users' = users
              ELSE /\ resp'.status = 200
                   /\ Cardinality(DOMAIN users') = Cardinality(DOMAIN users) + 1
                   /\ DOMAIN users \subseteq DOMAIN users'
                   /\ \A i \in DOMAIN users : users'[i] = users[i]
                   /\ Roster(users') = Roster(users) \cup {username}
                   /\ users'[resp'.user_id] = username]_vars

C4_Witness ==
    /\ resp.op = "create_user"
    /\ resp.status = 400
    /\ Cardinality(DOMAIN users) = Cardinality(Usernames)
    /\ resp.username \in Roster(users)

\* C5: UploadComposition for a username that is not registered is answered
\* 404 at once and the compositions table is left as it is.
C5_UploadUnknownUser ==
    [][\A p \in Procs, username \in Usernames, content \in Contents :
          (upload_composition_user(p, username, content)
              /\ username \notin Roster(users)) =>
              /\ resp'.status = 404
              /\ resp'.op = "upload_composition"
              /\ pc'[p] = "idle"
              /\ compositions' = compositions]_vars

C5_Witness ==
    /\ resp.op = "upload_composition"
    /\ resp.status = 404
    /\ resp.username \notin Roster(users)
    /\ rounds # <<>>
    /\ compositions # <<>>

\* C6: while no round has been started no composition exists, and an upload
\* by a registered user that finds no round is answered 400 and creates none.
C6_UploadWithoutRound ==
    /\ [](rounds = <<>> => compositions = <<>>)
    /\ [][\A p \in Procs :
             (upload_composition_round(p) /\ rounds = <<>>) =>
                 /\ resp'.status = 400
                 /\ resp'.detail = "No active round"
                 /\ pc'[p] = "idle"
                 /\ compositions' = compositions]_vars

C6_Witness ==
    /\ resp.op = "upload_composition"
    /\ resp.status = 400
    /\ resp.username \in Roster(users)
    /\ rounds = <<>>

\* C7: a vote cast while no round has been started is answered 400.
\* (The handler never reads the rounds table and answers 404.)
C7_VoteWithoutRound ==
    (resp.op = "vote_composition" /\ rounds = <<>>) => resp.status = 400

\* C8: served one at a time, the INSERT of an upload adds exactly one row, the
\* one whose id the answer carries: owned by the uploading user, with the
\* uploaded content, votes = 0 and the highest existing round number, which
\* the answer carries too; every other row is left as it is.
C8_UploadAddsOneRow ==
    [][\A p \in Procs :
          upload_composition_insert(p) =>
              LET id == resp'.composition_id IN
              /\ resp'.status = 200
              /\ id \notin DOMAIN compositions
              /\ DOMAIN compositions' = DOMAIN compositions \cup {id}
              /\ \A c \in DOMAIN compositions :
                    compositions'[c] = compositions[c]
              /\ compositions'[id].user_id \in DOMAIN users
              /\ users[compositions'[id].user_id] = resp'.username
              /\ compositions'[id].content = req[p].content
              /\ compositions'[id].votes = 0
              /\ compositions'[id].round_number = Max(RoundNumbers)
              /\ resp'.round_number = Max(RoundNumbers)]_vars

\* C8 witness: after two StartRounds an upload is answered with round 2.
C8_Witness ==
    /\ resp.op = "upload_composition"
    /\ resp.status = 200
    /\ rounds = <<1, 2>>
    /\ resp.round_number = 2
    /\ compositions[resp.composition_id].round_number = 2

\* C9: served one at a time, GetCurrentRound is answered 404 iff no round
\* exists; otherwise its rows are exactly the compositions of the highest
\* round, one row each, with the owner's username, the content and the stored
\* vote counter.
C9_CurrentRoundListing ==
    (AllIdle /\ resp.op = "get_current_round") =>
        /\ resp.status = 404 <=> rounds = <<>>
        /\ rounds = <<>> => resp.rows = <<>>
        /\ rounds # <<>> =>
              /\ resp.status = 200
              /\ {resp.rows[i].id : i \in DOMAIN resp.rows} = CurrentRoundIds
              /\ Len(resp.rows) = Cardinality(CurrentRoundIds)
              /\ \A i \in DOMAIN resp.rows :
                    LET row == resp.rows[i] IN
                    /\ row.username = users[compositions[row.id].user_id]
                    /\ row.content = compositions[row.id].content
                    /\ row.votes = compositions[row.id].votes

\* C9 witness: right after a new StartRound the listing is empty although an
\* earlier round holds a composition.
C9_Witness ==
    /\ AllIdle
    /\ resp.op = "get_current_round"
    /\ resp.status = 200
    /\ resp.rows = <<>>
    /\ compositions # <<>>

\* C10: no StartRound request ends in an error.  (Two overlapping requests
\* read the same MAX(number); the second INSERT violates the primary key.)
C10_StartRoundSucceeds ==
    resp.op = "start_new_round" => resp.status = 200

\* C11: in every state, whatever the interleaving, the round numbers are
\* exactly 1..N, one row each: none is duplicated and none is skipped.
C11_RoundNumbersDense ==
    /\ RoundNumbers = 1..Len(rounds)
    /\ \A i, j \in DOMAIN rounds : rounds[i] = rounds[j] => i = j

\* C11 witness: two StartRound requests overlapped; the second INSERT was
\* refused and the table holds round 1 once.
C11_Witness ==
    /\ resp.op = "start_new_round"
    /\ resp.status = 500
    /\ rounds = <<1>>

\* C12: no increment is lost: a composition's stored counter is the number of
\* votes answered 200 for it plus the votes that have committed their UPDATE
\* and not yet answered.
VotesCommitted(c) ==
    Cardinality({q \in Procs : /\ pc[q] = "vote_composition_fetch"
                               /\ req[q].composition_id = c})

C12_NoLostVote ==
    \A c \in DOMAIN compositions :
        compositions[c].votes = okVotes[c] + VotesCommitted(c)

\* C12 witness: two votes on one composition overlap, both past their UPDATE.
C12_Witness ==
    \E c \in DOMAIN compositions :
        /\ VotesCommitted(c) = 2
        /\ compositions[c].votes = okVotes[c] + 2

\* C13: in every state, whatever the interleaving, no two rows of users hold
\* the same username.
C13_UsernamesUnique ==
    \A i, j \in DOMAIN users : users[i] = users[j] => i = j

\* C13 witness: a second registration of a username was refused while another
\* request was in flight.
C13_Witness ==
    /\ resp.op = "create_user"
    /\ resp.status = 400
    /\ ~AllIdle
    /\ \E i \in DOMAIN users : users[i] = resp.username

\* C14: every stored composition is owned by a row of users and tagged with
\* a number of table rounds.
C14_CompositionReferences ==
    \A c \in DOMAIN compositions :
        /\ compositions[c].user_id \in DOMAIN users
        /\ compositions[c].round_number \in RoundNumbers

\* C14 witness: compositions of two rounds and of two users are stored.
C14_Witness ==
    \E c, d \in DOMAIN compositions :
        /\ compositions[c].round_number # compositions[d].round_number
        /\ compositions[c].user_id # compositions[d].user_id

\* C15: every vote counter is >= 0; a new row starts at 0; across any step a
\* row is kept and its counter does not decrease, and it changes only by +1 in
\* the UPDATE step of a vote on that very composition.
C15_VotesMonotonic ==
    /\ [](\A c \in DOMAIN compositions : compositions[c].votes >= 0)
    /\ [][\A c \in DOMAIN compositions' :
             IF c \in DOMAIN compositions
             THEN /\ compositions'[c].votes >= compositions[c].votes
                  /\ compositions'[c].votes # compositions[c].votes =>
                        /\ compositions'[c].votes = compositions[c].votes + 1
                        /\ \E p \in Procs :
                              /\ vote_composition_update(p)
                              /\ req[p].composition_id = c
             ELSE compositions'[c].votes = 0]_vars
    /\ [][DOMAIN compositions \subseteq DOMAIN compositions']_vars

\* C15 witness: one composition has been voted MaxVotes times, another never.
C15_Witness ==
    \E c, d \in DOMAIN compositions :
        /\ compositions[c].votes = MaxVotes
        /\ compositions[d].votes = 0

\* C16: the current round number never decreases; table rounds changes only
\* in the INSERT step of a StartRound, which appends one row; while the table
\* is empty no StartRound has been answered 200.
C16_OnlyStartRoundChangesRounds ==
    /\ [](rounds = <<>> =>
            ~(resp.op = "start_new_round" /\ resp.status = 200))
    /\ [][/\ SelectCurrentRound' >= SelectCurrentRound
          /\ rounds' # rounds =>
                /\ \E p \in Procs : start_new_round_insert(p)
                /\ Len(rounds') = Len(rounds) + 1
                /\ \A i \in DOMAIN rounds : rounds'[i] = rounds[i]]_vars

\* C16 witness: after the last round was started, a registration, an upload
\* and a vote were served and the rounds are still 1..MaxRounds.
C16_Witness ==
    /\ Len(rounds) = MaxRounds
    /\ resp.op = "vote_composition"
    /\ resp.status = 200
    /\ compositions[resp.composition_id].round_number = MaxRounds

\* C17: at the step that stores an upload, the row is tagged with the highest
\* round number existing at that step.  (The handler reads the current round
\* and inserts in separate statements; a StartRound can commit in between.)
C17_UploadTaggedCurrent ==
    [][\A p \in Procs :
          upload_composition_insert(p) =>
              compositions'[resp'.composition_id].round_number
                  = SelectCurrentRound]_vars

\* C18: the id answered by an upload (a registration) is the id of the row it
\* stored and was the id of no row before; rows are never removed and a row
\* keeps its id, so no id is ever answered or stored twice.
C18_IdsNeverReused ==
    [][/\ \A p \in Procs :
          upload_composition_insert(p) =>
              /\ resp'.composition_id \notin DOMAIN compositions
              /\ resp'.composition_id \in DOMAIN compositions'
       /\ \A p \in Procs, username \in Usernames :
             (create_user(p, username) /\ resp'.status = 200) =>
                 /\ resp'.user_id \notin DOMAIN users
                 /\ resp'.user_id \in DOMAIN users'
                 /\ users'[resp'.user_id] = username
       /\ DOMAIN users \subseteq DOMAIN users'
       /\ \A i \in DOMAIN users : users'[i] = users[i]
       /\ DOMAIN compositions \subseteq DOMAIN compositions'
       /\ \A c \in DOMAIN compositions :
             /\ compositions'[c].user_id = compositions[c].user_id
             /\ compositions'[c].content = compositions[c].content
             /\ compositions'[c].round_number
                   = compositions[c].round_number]_vars

\* C18 witness: the last upload was answered with the id MaxComps, after
\* every username was registered.
C18_Witness ==
    /\ resp.op = "upload_composition"
    /\ resp.status = 200
    /\ resp.composition_id = MaxComps
    /\ Cardinality(DOMAIN users) = Cardinality(Usernames)

\* C19: two successful votes on one composition never answer the same count.
\* (The handler reads the counter back after its commit; a vote that commits
\* in between is counted in both answers.)
C19_VoteAnswersDiffer ==
    [][\A p \in Procs :
          (/\ vote_composition_fetch(p)
           /\ resp.op = "vote_composition"
           /\ resp.status = 200
           /\ resp.composition_id = req[p].composition_id) =>
              resp'.votes # resp.votes]_vars

====
